---- MODULE Spec2Model ----
(***************************************************************************)
(* Model of main.py: the cookie-format normalizer convert_cookie_format    *)
(* (a regular-expression substitution over the command text) and the       *)
(* pipeline fetch_from_curl (parse, classify the body, request, check the  *)
(* status, normalize the response, persist, return).                       *)
(*                                                                         *)
(* Text is modelled as a sequence of one-character strings, so that the    *)
(* regular expression, json.loads and json.dump act on characters.         *)
(***************************************************************************)
EXTENDS Integers, Sequences, FiniteSets, TLC

(***************************************************************************)
(* Bounds of the model.                                                    *)
(***************************************************************************)
\* number of text fragments a command string is assembled from
MaxFrags == 3
\* number of successive applications of convert_cookie_format
MaxCalls == 2
\* number of successive invocations of fetch_from_curl on one output path
MaxRuns == 2

(***************************************************************************)
(* Characters and literals of the pattern at main.py:83 and of the         *)
(* replacement at main.py:91.                                              *)
(***************************************************************************)
\* \s of the pattern (its ASCII members that occur in command text)
Whitespace == {" ", "\n", "\t", "\r"}
\* ['"] of the pattern
Quotes == {"'", "\""}
\* the alternatives of (-b|--cookie), in the order the pattern tries them
FlagB == <<"-", "b">>
FlagCookie == <<"-", "-", "c", "o", "o", "k", "i", "e">>
\* the literal text "-H " of the replacement
HeaderFlag == <<"-", "H", " ">>
\* the literal text "Cookie: " of the replacement
CookiePrefix == <<"C", "o", "o", "k", "i", "e", ":", " ">>

(***************************************************************************)
(* convert_cookie_format: re.sub(pattern, replace_func, curl_command).     *)
(***************************************************************************)
\* does the literal lit stand in s at position i
StartsWith(s, i, lit) ==
    /\ i + Len(lit) - 1 <= Len(s)
    /\ SubSeq(s, i, i + Len(lit) - 1) = lit

\* group 1, (-b|--cookie): the position after the flag, 0 when neither stands at i
MatchFlag(s, i) ==
    IF StartsWith(s, i, FlagB) THEN i + Len(FlagB)
    ELSE IF StartsWith(s, i, FlagCookie) THEN i + Len(FlagCookie)
    ELSE 0

\* \s* (greedy): the first position at or after i that holds no whitespace
RECURSIVE SkipWs(_, _)
SkipWs(s, i) ==
    IF i <= Len(s) /\ s[i] \in Whitespace THEN SkipWs(s, i + 1) ELSE i

\* =? (greedy): the position after an equals sign standing at i, else i
SkipEq(s, i) ==
    IF i <= Len(s) /\ s[i] = "=" THEN i + 1 ELSE i

\* group 2, (['"]): the position of the opening quote, 0 when the text after
\* the flag is not \s*=?\s* followed by a quote
MatchQuote(s, i) ==
    LET k == SkipWs(s, SkipEq(s, SkipWs(s, i)))
    IN  IF k <= Len(s) /\ s[k] \in Quotes THEN k ELSE 0

\* (.*?)\2 : the position of the first q at or after m, 0 when a line break
\* (which . does not match) or the end of the text comes first
RECURSIVE CloseQuote(_, _, _)
CloseQuote(s, m, q) ==
    IF m > Len(s) THEN 0
    ELSE IF s[m] = q THEN m
    ELSE IF s[m] = "\n" THEN 0
    ELSE CloseQuote(s, m + 1, q)

\* the match of the whole pattern at position i: [k |-> opening quote,
\* j |-> closing quote], k = 0 when the pattern does not match at i
MatchAt(s, i) ==
    LET a == MatchFlag(s, i)
        k == IF a = 0 THEN 0 ELSE MatchQuote(s, a)
        j == IF k = 0 THEN 0 ELSE CloseQuote(s, k + 1, s[k])
    IN  IF j = 0 THEN [k |-> 0, j |-> 0] ELSE [k |-> k, j |-> j]

\* a variant of replace_func that does not keep the quote style of the input
Always_single_quote(quote, cookie_value) ==
    HeaderFlag \o <<"'">> \o CookiePrefix \o cookie_value \o <<"'">>

\* replace_func: f"-H {quote}Cookie: {cookie_value}{quote}"
replace_func(quote, cookie_value) ==
    HeaderFlag \o <<quote>> \o CookiePrefix \o cookie_value \o <<quote>>

\* re.sub: scan from the left, replace each match, resume after its end
RECURSIVE Sub(_, _)
Sub(s, i) ==
    IF i > Len(s) THEN <<>>
    ELSE LET m == MatchAt(s, i)
         IN  IF m.k # 0
             THEN replace_func(s[m.k], SubSeq(s, m.k + 1, m.j - 1)) \o Sub(s, m.j + 1)
             ELSE <<s[i]>> \o Sub(s, i + 1)

convert_cookie_format(curl_command) == Sub(curl_command, 1)

(***************************************************************************)
(* Command strings the normalizer is applied to: up to MaxFrags fragments  *)
(* of curl command text, concatenated.                                     *)
(***************************************************************************)
Opp(q) == IF q = "'" THEN "\"" ELSE "'"

\* cookie values quoted with q: plain, starting with "Cookie: ", spanning a
\* line break, and holding -b "x" in the opposite quote style
CookieValues(q) ==
    { <<"x">>,
      <<"x", "\n">>,
      CookiePrefix \o <<"x">>,
      FlagB \o <<" ", Opp(q), "x", Opp(q)>>,
      CookiePrefix \o FlagB \o <<" ", Opp(q), "x", Opp(q)>> }

Frags ==
    { FlagB, FlagCookie, HeaderFlag, <<"=">>, <<" ">>, <<"\n">>, <<"'">>, <<"\"">> }
    \cup UNION { { <<q>> \o v \o <<q>> : v \in CookieValues(q) } : q \in Quotes }

RECURSIVE Flatten(_)
Flatten(fs) == IF fs = <<>> THEN <<>> ELSE Head(fs) \o Flatten(Tail(fs))

Commands == { Flatten(fs) : fs \in UNION { [1..n -> Frags] : n \in 0..MaxFrags } }

(***************************************************************************)
(* Python values: None, bool, int, str, list and dict (a dict keeps its    *)
(* keys in insertion order).  Unbound marks a local that is not assigned.  *)
(***************************************************************************)
None == [t |-> "None"]
Unbound == [t |-> "unbound"]
PyBool(b) == [t |-> "bool", b |-> b]
PyInt(n) == [t |-> "int", n |-> n]
PyStr(cs) == [t |-> "str", s |-> cs]
PyList(items) == [t |-> "list", items |-> items]
PyDict(pairs) == [t |-> "dict", pairs |-> pairs]

(***************************************************************************)
(* json.loads, as called at main.py:149 and by response.json() at          *)
(* main.py:186: strict decoding of a JSON text.  Numbers are integers; the *)
(* texts of the model hold no fraction, exponent or \u escape.             *)
(***************************************************************************)
\* the whitespace json skips between tokens
JsonWs == {" ", "\t", "\n", "\r"}
\* characters a JSON string may not hold unescaped
ControlChars == {"\n", "\t", "\r", "\f"}
DigitChars == <<"0", "1", "2", "3", "4", "5", "6", "7", "8", "9">>

IsDigit(c) == \E d \in 1..10 : DigitChars[d] = c
DigitVal(c) == (CHOOSE d \in 1..10 : DigitChars[d] = c) - 1

Bad == [ok |-> FALSE, v |-> None, next |-> 0]
Good(v, next) == [ok |-> TRUE, v |-> v, next |-> next]

RECURSIVE JsonSkip(_, _)
JsonSkip(s, i) ==
    IF i <= Len(s) /\ s[i] \in JsonWs THEN JsonSkip(s, i + 1) ELSE i

\* the character an escape sequence \c stands for, "" when c starts none
Unescape(c) ==
    CASE c = "\"" -> "\""
      [] c = "\\" -> "\\"
      [] c = "/"  -> "/"
      [] c = "n"  -> "\n"
      [] c = "t"  -> "\t"
      [] c = "r"  -> "\r"
      [] c = "f"  -> "\f"
      [] OTHER    -> ""

\* the rest of a string whose opening quote has been read
RECURSIVE ParseString(_, _, _)
ParseString(s, i, acc) ==
    IF i > Len(s) THEN Bad
    ELSE IF s[i] = "\"" THEN Good(PyStr(acc), i + 1)
    ELSE IF s[i] = "\\"
         THEN IF i + 1 > Len(s) \/ Unescape(s[i + 1]) = "" THEN Bad
              ELSE ParseString(s, i + 2, Append(acc, Unescape(s[i + 1])))
    ELSE IF s[i] \in ControlChars THEN Bad
    ELSE ParseString(s, i + 1, Append(acc, s[i]))

RECURSIVE ScanDigits(_, _, _)
ScanDigits(s, i, n) ==
    IF i <= Len(s) /\ IsDigit(s[i]) THEN ScanDigits(s, i + 1, 10 * n + DigitVal(s[i]))
    ELSE [n |-> n, next |-> i]

\* -?(0|[1-9][0-9]*)
ParseNumber(s, i) ==
    LET neg == s[i] = "-"
        d == IF neg THEN i + 1 ELSE i
    IN  IF d > Len(s) \/ ~IsDigit(s[d]) THEN Bad
        ELSE IF s[d] = "0" THEN Good(PyInt(0), d + 1)
        ELSE LET r == ScanDigits(s, d, 0)
             IN  Good(PyInt(IF neg THEN 0 - r.n ELSE r.n), r.next)

\* d[key] = v on the pairs of a dict
DictPut(pairs, key, v) ==
    IF \E p \in 1..Len(pairs) : pairs[p][1] = key
    THEN [p \in 1..Len(pairs) |-> IF pairs[p][1] = key THEN <<key, v>> ELSE pairs[p]]
    ELSE Append(pairs, <<key, v>>)

RECURSIVE ParseValue(_, _), ParseElements(_, _, _), ParseMembers(_, _, _)
ParseValue(s, i) ==
    IF i > Len(s) THEN Bad
    ELSE IF StartsWith(s, i, <<"n", "u", "l", "l">>) THEN Good(None, i + 4)
    ELSE IF StartsWith(s, i, <<"t", "r", "u", "e">>) THEN Good(PyBool(TRUE), i + 4)
    ELSE IF StartsWith(s, i, <<"f", "a", "l", "s", "e">>) THEN Good(PyBool(FALSE), i + 5)
    ELSE IF s[i] = "\"" THEN ParseString(s, i + 1, <<>>)
    ELSE IF s[i] = "["
         THEN LET j == JsonSkip(s, i + 1)
              IN  IF j <= Len(s) /\ s[j] = "]" THEN Good(PyList(<<>>), j + 1)
                  ELSE ParseElements(s, j, <<>>)
    ELSE IF s[i] = "{"
         THEN LET j == JsonSkip(s, i + 1)
              IN  IF j <= Len(s) /\ s[j] = "}" THEN Good(PyDict(<<>>), j + 1)
                  ELSE ParseMembers(s, j, <<>>)
    ELSE IF s[i] = "-" \/ IsDigit(s[i]) THEN ParseNumber(s, i)
    ELSE Bad

\* the elements of an array, from the element at i on
ParseElements(s, i, acc) ==
    LET r == ParseValue(s, i)
        j == JsonSkip(s, r.next)
    IN  IF ~r.ok \/ j > Len(s) THEN Bad
        ELSE IF s[j] = "," THEN ParseElements(s, JsonSkip(s, j + 1), Append(acc, r.v))
        ELSE IF s[j] = "]" THEN Good(PyList(Append(acc, r.v)), j + 1)
        ELSE Bad

\* the members of an object, from the key at i on
ParseMembers(s, i, acc) ==
    IF i > Len(s) \/ s[i] # "\"" THEN Bad
    ELSE LET k == ParseString(s, i + 1, <<>>)
             c == JsonSkip(s, k.next)
         IN  IF ~k.ok \/ c > Len(s) \/ s[c] # ":" THEN Bad
             ELSE LET r == ParseValue(s, JsonSkip(s, c + 1))
                      j == JsonSkip(s, r.next)
                  IN  IF ~r.ok \/ j > Len(s) THEN Bad
                      ELSE IF s[j] = ","
                           THEN ParseMembers(s, JsonSkip(s, j + 1), DictPut(acc, k.v.s, r.v))
                      ELSE IF s[j] = "}" THEN Good(PyDict(DictPut(acc, k.v.s, r.v)), j + 1)
                      ELSE Bad

\* json.loads(s): [ok |-> TRUE, v |-> the value], or ok = FALSE where the
\* code raises json.JSONDecodeError
JsonLoads(s) ==
    LET r == ParseValue(s, JsonSkip(s, 1))
    IN  IF r.ok /\ JsonSkip(s, r.next) > Len(s) THEN [ok |-> TRUE, v |-> r.v]
        ELSE [ok |-> FALSE, v |-> None]

(***************************************************************************)
(* json.dump(result_data, f, ensure_ascii=False, indent=2), main.py:202.   *)
(***************************************************************************)
RECURSIVE NatChars(_)
NatChars(n) ==
    IF n < 10 THEN <<DigitChars[n + 1]>>
    ELSE NatChars(n \div 10) \o <<DigitChars[(n % 10) + 1]>>

IntChars(n) == IF n < 0 THEN <<"-">> \o NatChars(0 - n) ELSE NatChars(n)

EscapeChar(c) ==
    CASE c = "\"" -> <<"\\", "\"">>
      [] c = "\\" -> <<"\\", "\\">>
      [] c = "\n" -> <<"\\", "n">>
      [] c = "\t" -> <<"\\", "t">>
      [] c = "\r" -> <<"\\", "r">>
      [] c = "\f" -> <<"\\", "f">>
      [] OTHER    -> <<c>>

EncodeStr(cs) ==
    <<"\"">> \o Flatten([i \in 1..Len(cs) |-> EscapeChar(cs[i])]) \o <<"\"">>

\* a line break and the indentation of nesting level lvl
NewLine(lvl) == <<"\n">> \o [i \in 1..(2 * lvl) |-> " "]

RECURSIVE DumpValue(_, _), DumpItems(_, _, _), DumpPairs(_, _, _)
DumpValue(v, lvl) ==
    CASE v.t = "None" -> <<"n", "u", "l", "l">>
      [] v.t = "bool" -> IF v.b THEN <<"t", "r", "u", "e">> ELSE <<"f", "a", "l", "s", "e">>
      [] v.t = "int"  -> IntChars(v.n)
      [] v.t = "str"  -> EncodeStr(v.s)
      [] v.t = "list" -> IF v.items = <<>> THEN <<"[", "]">>
                         ELSE <<"[">> \o DumpItems(v.items, 1, lvl + 1)
                                  \o NewLine(lvl) \o <<"]">>
      [] v.t = "dict" -> IF v.pairs = <<>> THEN <<"{", "}">>
                         ELSE <<"{">> \o DumpPairs(v.pairs, 1, lvl + 1)
                                  \o NewLine(lvl) \o <<"}">>

DumpItems(items, n, lvl) ==
    IF n > Len(items) THEN <<>>
    ELSE (IF n > 1 THEN <<",">> ELSE <<>>) \o NewLine(lvl)
             \o DumpValue(items[n], lvl) \o DumpItems(items, n + 1, lvl)

DumpPairs(pairs, n, lvl) ==
    IF n > Len(pairs) THEN <<>>
    ELSE (IF n > 1 THEN <<",">> ELSE <<>>) \o NewLine(lvl)
             \o EncodeStr(pairs[n][1]) \o <<":", " ">>
             \o DumpValue(pairs[n][2], lvl) \o DumpPairs(pairs, n + 1, lvl)

JsonDump(v) == DumpValue(v, 0)

(***************************************************************************)
(* Inputs of fetch_from_curl: what the external parser, the transport and  *)
(* the file system can hand to the code.                                   *)
(***************************************************************************)
\* parsed.data: no body, or the text of the body
Datas ==
    { None,
      PyStr(<<>>),
      PyStr(<<"n", "u", "l", "l">>),
      PyStr(<<"f", "a", "l", "s", "e">>),
      PyStr(<<"0">>),
      PyStr(<<"[", "]">>),
      PyStr(<<"{", "}">>),
      PyStr(<<"{", "\"", "a", "\"", ":", "1", "}">>),
      PyStr(<<"a", "=", "1", "&", "b", "=", "2">>) }

\* response.status_code
StatusCodes == {200, 201, 304, 404}

\* response.text
ResponseTexts ==
    { <<>>,
      <<"n", "u", "l", "l">>,
      <<"[", "]">>,
      <<"{", "\"", "a", "\"", ":", " ", "[", "1", ",", " ", "\"", "b", "\"", "]", "}">>,
      <<"{", "\"", "a", "\"", ":", "1", ",", "\"", "a", "\"", ":", "2", "}">>,
      <<"\"", "a", "\\", "\"", "b", "\"">>,
      <<"<", "h", "t", "m", "l", ">">>,
      <<"a", "\"", "b", "\n">>,
      <<"[", "1", ",">> }

Responses == [status_code : StatusCodes, text : ResponseTexts]

\* the file at output_file: absent, or holding a text
NoFile == [exists |-> FALSE, text |-> <<>>]
FileWith(text) == [exists |-> TRUE, text |-> text]

VARIABLES
    curl_command,   \* the command string handed to convert_cookie_format
    outputs,        \* the results of its successive applications
    pc,             \* the statement fetch_from_curl is at, "idle" between invocations
    runs,           \* invocations of fetch_from_curl started so far
    stdout_ok,      \* print() succeeds; FALSE once the diagnostic stream is broken
    data,           \* parsed.data
    json_data,      \* local json_data
    form_data,      \* local form_data
    issued,         \* the json= and data= arguments of the request that was issued
    response,       \* local response
    result_data,    \* local result_data
    file,           \* the file at output_file
    file_before,    \* that file when the invocation started
    wrote,          \* json.dump has written the file in the current invocation
    failed,         \* the step of the current invocation that raised, "" when none
    exit,           \* how the last invocation ended: "return" or "raise"
    ret             \* the value the last invocation returned

convert_vars == <<curl_command, outputs>>
locals == <<data, json_data, form_data, issued, response, result_data>>
fetch_vars == <<pc, runs, stdout_ok, locals, file, file_before, wrote, failed, exit, ret>>
vars == <<convert_vars, fetch_vars>>

InitFetchVars ==
    /\ pc = "idle"
    /\ runs = 0
    /\ stdout_ok = TRUE
    /\ data = Unbound /\ json_data = Unbound /\ form_data = Unbound
    /\ issued = Unbound /\ response = Unbound /\ result_data = Unbound
    /\ file \in {NoFile, FileWith(<<"o", "l", "d">>)}
    /\ file_before = file
    /\ wrote = FALSE
    /\ failed = ""
    /\ exit = ""
    /\ ret = Unbound

(***************************************************************************)
(* Applications of convert_cookie_format to one command string.            *)
(***************************************************************************)
InitConvert ==
    /\ curl_command \in Commands
    /\ outputs = <<>>
    /\ InitFetchVars
    /\ file = NoFile

\* curl_command = convert_cookie_format(curl_command)
Convert ==
    /\ Len(outputs) < MaxCalls
    /\ outputs' = Append(outputs,
           convert_cookie_format(IF outputs = <<>> THEN curl_command
                                 ELSE outputs[Len(outputs)]))
    /\ UNCHANGED <<curl_command, fetch_vars>>

NextConvert == Convert

SpecConvert == InitConvert /\ [][NextConvert]_vars

(***************************************************************************)
(* fetch_from_curl(curl_command, output_file), one action per step.        *)
(***************************************************************************)
\* an exception of class Exception is raised inside the try block
RaiseException(step) ==
    /\ pc' = "except_Exception"
    /\ failed' = step

\* if data: (None and the empty string are false)
Truthy(d) == d # None /\ d # PyStr(<<>>)

\* a variant of Classify with form_data = data outside the except branch
Classify_both(d) ==
    IF Truthy(d)
    THEN [json |-> IF JsonLoads(d.s).ok THEN JsonLoads(d.s).v ELSE None, form |-> d]
    ELSE [json |-> None, form |-> None]

\* main.py:142-152: the values of json_data and form_data for parsed.data = d
Classify(d) ==
    IF Truthy(d)
    THEN IF d.t = "str"
         THEN IF JsonLoads(d.s).ok
              THEN [json |-> JsonLoads(d.s).v, form |-> None]
              ELSE [json |-> None, form |-> d]
         ELSE [json |-> d, form |-> None]
    ELSE [json |-> None, form |-> None]

\* raise_for_status(): raises unless the status is 2xx, as main.py:176
\* documents the call
RaisesForStatus(status_code) == ~(status_code \in 200..299)

\* a variant of Fallback that drops status_code
Fallback_without_status(r) ==
    PyDict(<< <<<<"c", "o", "n", "t", "e", "n", "t">>, PyStr(r.text)>> >>)

\* main.py:190-193: the record built for a response that is not JSON
Fallback(r) ==
    PyDict(<< <<<<"c", "o", "n", "t", "e", "n", "t">>, PyStr(r.text)>>,
              <<<<"s", "t", "a", "t", "u", "s", "_", "c", "o", "d", "e">>,
                PyInt(r.status_code)>> >>)

\* a variant of Open_w for mode 'a': the text of the file is kept
Open_append(f) == FileWith(f.text)

\* open(output_file, 'w'): the file exists and is empty
Open_w(f) == FileWith(<<>>)

\* the call fetch_from_curl(...) from the caller; the caller survives a return
\* and dies with an exception that escapes
Call ==
    /\ pc = "idle" /\ runs < MaxRuns /\ exit # "raise"
    /\ pc' = "parse"
    /\ runs' = runs + 1
    /\ data' = Unbound /\ json_data' = Unbound /\ form_data' = Unbound
    /\ issued' = Unbound /\ response' = Unbound /\ result_data' = Unbound
    /\ file_before' = file
    /\ wrote' = FALSE
    /\ failed' = "" /\ exit' = "" /\ ret' = Unbound
    /\ UNCHANGED <<convert_vars, stdout_ok, file>>

\* the diagnostic stream breaks (closed pipe, console that cannot encode the text)
BreakStdout ==
    /\ pc # "idle" /\ stdout_ok
    /\ stdout_ok' = FALSE
    /\ UNCHANGED <<convert_vars, pc, runs, locals, file, file_before, wrote, failed, exit, ret>>

\* main.py:119-135: print, uncurl.parse_context, prints
Parse ==
    /\ pc = "parse"
    /\ \/ ~stdout_ok /\ RaiseException("print") /\ UNCHANGED data
       \/ stdout_ok /\ RaiseException("parse") /\ UNCHANGED data
       \/ stdout_ok /\ \E d \in Datas : data' = d /\ pc' = "classify" /\ UNCHANGED failed
    /\ UNCHANGED <<convert_vars, runs, stdout_ok, json_data, form_data, issued, response,
                   result_data, file, file_before, wrote, exit, ret>>

\* main.py:142-152
ClassifyBody ==
    /\ pc = "classify"
    /\ json_data' = Classify(data).json
    /\ form_data' = Classify(data).form
    /\ pc' = "request"
    /\ UNCHANGED <<convert_vars, runs, stdout_ok, data, issued, response, result_data,
                   file, file_before, wrote, failed, exit, ret>>

\* main.py:157-171: print, requests.request(...)
Request ==
    /\ pc = "request"
    /\ \/ /\ ~stdout_ok /\ RaiseException("print")
          /\ UNCHANGED <<issued, response>>
       \/ /\ stdout_ok
          /\ issued' = [json |-> json_data, data |-> form_data]
          /\ \/ /\ pc' = "except_RequestException" /\ failed' = "request"
                /\ UNCHANGED response
             \/ /\ \E r \in Responses : response' = r
                /\ pc' = "status"
                /\ UNCHANGED failed
    /\ UNCHANGED <<convert_vars, runs, stdout_ok, data, json_data, form_data, result_data,
                   file, file_before, wrote, exit, ret>>

\* main.py:177-179: response.raise_for_status(), print
CheckStatus ==
    /\ pc = "status"
    /\ \/ /\ RaisesForStatus(response.status_code)
          /\ pc' = "except_RequestException" /\ failed' = "status"
       \/ /\ ~RaisesForStatus(response.status_code)
          /\ \/ ~stdout_ok /\ RaiseException("print")
             \/ stdout_ok /\ pc' = "decode" /\ UNCHANGED failed
    /\ UNCHANGED <<convert_vars, runs, stdout_ok, data, json_data, form_data, issued,
                   response, result_data, file, file_before, wrote, exit, ret>>

\* main.py:184-193: response.json(), else print and the fallback record
Normalize ==
    /\ pc = "decode"
    /\ \/ /\ JsonLoads(response.text).ok
          /\ result_data' = JsonLoads(response.text).v
          /\ pc' = "open" /\ UNCHANGED failed
       \/ /\ ~JsonLoads(response.text).ok
          /\ \/ ~stdout_ok /\ RaiseException("print") /\ UNCHANGED result_data
             \/ /\ stdout_ok
                /\ result_data' = Fallback(response)
                /\ pc' = "open" /\ UNCHANGED failed
    /\ UNCHANGED <<convert_vars, runs, stdout_ok, data, json_data, form_data, issued,
                   response, file, file_before, wrote, exit, ret>>

\* main.py:198: open(output_file, 'w', encoding='utf-8')
OpenFile ==
    /\ pc = "open"
    /\ \/ RaiseException("open") /\ UNCHANGED file
       \/ file' = Open_w(file) /\ pc' = "dump" /\ UNCHANGED failed
    /\ UNCHANGED <<convert_vars, runs, stdout_ok, locals, file_before, wrote, exit, ret>>

\* main.py:198-202: json.dump(result_data, f, ...) and the close of the file;
\* a write that fails leaves the file as open() made it
DumpFile ==
    /\ pc = "dump"
    /\ \/ RaiseException("dump") /\ UNCHANGED <<file, wrote>>
       \/ /\ file' = FileWith(file.text \o JsonDump(result_data))
          /\ wrote' = TRUE
          /\ pc' = "report" /\ UNCHANGED failed
    /\ UNCHANGED <<convert_vars, runs, stdout_ok, locals, file_before, exit, ret>>

\* main.py:204-208: prints, return result_data
Return ==
    /\ pc = "report"
    /\ \/ ~stdout_ok /\ RaiseException("print") /\ UNCHANGED <<exit, ret>>
       \/ stdout_ok /\ pc' = "idle" /\ exit' = "return" /\ ret' = result_data
                    /\ UNCHANGED failed
    /\ UNCHANGED <<convert_vars, runs, stdout_ok, locals, file, file_before, wrote>>

\* main.py:210-220: except requests.RequestException: print, a second print
\* when the exception carries a response, return None; an exception raised by
\* a print of the handler leaves the function
HandleRequestException ==
    /\ pc = "except_RequestException"
    /\ pc' = "idle"
    /\ \/ ~stdout_ok /\ exit' = "raise" /\ UNCHANGED ret
       \/ stdout_ok /\ exit' = "return" /\ ret' = None
    /\ UNCHANGED <<convert_vars, runs, stdout_ok, locals, file, file_before, wrote, failed>>

\* main.py:222-227: except Exception: print, return None
HandleException ==
    /\ pc = "except_Exception"
    /\ pc' = "idle"
    /\ \/ ~stdout_ok /\ exit' = "raise" /\ UNCHANGED ret
       \/ stdout_ok /\ exit' = "return" /\ ret' = None
    /\ UNCHANGED <<convert_vars, runs, stdout_ok, locals, file, file_before, wrote, failed>>

Init ==
    /\ curl_command = <<>>
    /\ outputs = <<>>
    /\ InitFetchVars

Next ==
    \/ Call
    \/ BreakStdout
    \/ Parse
    \/ ClassifyBody
    \/ Request
    \/ CheckStatus
    \/ Normalize
    \/ OpenFile
    \/ DumpFile
    \/ Return
    \/ HandleRequestException
    \/ HandleException

Spec == Init /\ [][Next]_vars

(***************************************************************************)
(* The normalizer's contract, stated on the text itself (independently of  *)
(* the scan above).                                                        *)
(***************************************************************************)
Flags == {FlagB, FlagCookie}

\* the input of the n-th application
InputOf(n) == IF n = 1 THEN curl_command ELSE outputs[n - 1]

\* t stands somewhere in s
Contains(s, t) == \E p \in 1..(Len(s) - Len(t) + 1) : StartsWith(s, p, t)

\* the text -H <q>Cookie: <value><q> for the quoted value s[k..j]
HeaderText(s, k, j) ==
    <<"-", "H", " ", s[k]>> \o CookiePrefix \o SubSeq(s, k + 1, j - 1) \o <<s[k]>>

\* the positions after a flag that stands at i
FlagEnds(s, i) == { i + Len(f) : f \in { g \in Flags : StartsWith(s, i, g) } }

\* s[a..b] is whitespace around at most one equals sign
IsSeparator(s, a, b) ==
    /\ \A m \in a..b : s[m] \in Whitespace \cup {"="}
    /\ Cardinality({ m \in a..b : s[m] = "=" }) <= 1

\* s[a..b] is an optional equals sign followed by optional whitespace
IsEqThenSpace(s, a, b) ==
    \A m \in a..b : s[m] \in Whitespace \/ (s[m] = "=" /\ m = a)

\* the short-form cookie declarations that start at i, as pairs <<k, j>>: the
\* flag, an optional '=', optional whitespace, and a value quoted by s[k] and
\* s[j], the next occurrence of the same quote character
ShortFormsAt(s, i) ==
    UNION { UNION { { <<k, j>> : j \in { x \in (k + 1)..Len(s) :
                                           /\ s[x] = s[k]
                                           /\ \A m \in (k + 1)..(x - 1) : s[m] # s[k] } }
                    : k \in { y \in a..Len(s) :
                                s[y] \in Quotes /\ IsEqThenSpace(s, a, y - 1) } }
            : a \in FlagEnds(s, i) }

\* the same with the separator \s*=?\s* and a value that spans no line break
MatchesAt(s, i) ==
    UNION { UNION { { <<k, j>> : j \in { x \in (k + 1)..Len(s) :
                                           /\ s[x] = s[k]
                                           /\ \A m \in (k + 1)..(x - 1) :
                                                  s[m] \notin {s[k], "\n"} } }
                    : k \in { y \in a..Len(s) :
                                s[y] \in Quotes /\ IsSeparator(s, a, y - 1) } }
            : a \in FlagEnds(s, i) }

MatchStarts(s) == { i \in 1..Len(s) : MatchesAt(s, i) # {} }

\* the text with its matches rewritten from left to right, a match that
\* starts inside a rewritten one left as it is
RECURSIVE Rewritten(_)
Rewritten(s) ==
    LET starts == MatchStarts(s)
    IN  IF starts = {} THEN s
        ELSE LET i == CHOOSE x \in starts : \A y \in starts : x <= y
                 kj == CHOOSE p \in MatchesAt(s, i) : TRUE
             IN  SubSeq(s, 1, i - 1) \o HeaderText(s, kj[1], kj[2])
                     \o Rewritten(SubSeq(s, kj[2] + 1, Len(s)))

\* a header-style cookie declaration -H <q>Cookie: ...<q> starts at i: the
\* position of its closing quote, else 0
HeaderDeclEnd(s, i) ==
    IF /\ StartsWith(s, i, HeaderFlag)
       /\ i + 3 <= Len(s) /\ s[i + 3] \in Quotes
       /\ StartsWith(s, i + 4, CookiePrefix)
       /\ \E j \in (i + 12)..Len(s) : s[j] = s[i + 3]
    THEN CHOOSE j \in (i + 12)..Len(s) :
             s[j] = s[i + 3] /\ \A m \in (i + 12)..(j - 1) : s[m] # s[i + 3]
    ELSE 0

\* the command consists of header-style cookie declarations and blanks
RECURSIVE IsHeaderStyleFrom(_, _)
IsHeaderStyleFrom(s, i) ==
    IF i > Len(s) THEN TRUE
    ELSE IF s[i] = " " THEN IsHeaderStyleFrom(s, i + 1)
    ELSE LET e == HeaderDeclEnd(s, i)
         IN  e # 0 /\ IsHeaderStyleFrom(s, e + 1)

IsHeaderStyle(s) == IsHeaderStyleFrom(s, 1)

\* no short-form cookie flag stands in the command
HasNoShortFlag(s) == \A i \in 1..Len(s) : \A f \in Flags : ~StartsWith(s, i, f)

\* C1: convert_cookie_format is idempotent: applying it to its own result
\* returns that result unchanged.
C1_Idempotent ==
    Len(outputs) >= 2 => outputs[2] = outputs[1]

C3_HeaderStyleUnchanged ==
    Len(outputs) >= 1 =>
        /\ IsHeaderStyle(curl_command) => outputs[1] = curl_command
        /\ HasNoShortFlag(curl_command) => outputs[1] = curl_command

(***************************************************************************)
(* Properties of fetch_from_curl.                                          *)
(***************************************************************************)
\* the request carries a JSON payload / a raw payload
SendsJson == issued.json # None
SendsRaw == issued.data # None

\* C4: when the request is issued, json_data and form_data are never both
\* set.
C4_Exclusive ==
    issued # Unbound => ~(SendsJson /\ SendsRaw)

\* a request was issued with a raw payload, after the JSON decoding failed
C4_Witness ==
    /\ issued # Unbound
    /\ issued.data = PyStr(<<"a", "=", "1", "&", "b", "=", "2">>)
    /\ issued.json = None

\* C5: no payload is sent only when the body is absent; a body that is
\* present is sent as the JSON payload carrying the decoded value when it
\* decodes as JSON, and verbatim as the raw payload otherwise.
C5_PresentBodyIsSent ==
    issued # Unbound =>
        /\ (~SendsJson /\ ~SendsRaw) => data = None
        /\ data # None =>
               IF JsonLoads(data.s).ok
               THEN SendsJson /\ ~SendsRaw /\ issued.json = JsonLoads(data.s).v
               ELSE SendsRaw /\ ~SendsJson /\ issued.data = data

\* C6: the payload computed for a 2xx response is the decoded body when the
\* body decodes as JSON, and otherwise the record {content: text,
\* status_code: status}.
C6_Normalized ==
    result_data # Unbound =>
        /\ response.status_code \in 200..299
        /\ result_data =
               IF JsonLoads(response.text).ok THEN JsonLoads(response.text).v
               ELSE PyDict(<< <<<<"c", "o", "n", "t", "e", "n", "t">>, PyStr(response.text)>>,
                              <<<<"s", "t", "a", "t", "u", "s", "_", "c", "o", "d", "e">>,
                                PyInt(response.status_code)>> >>)

\* the fallback record was built for a 201 response that is not JSON
C6_Witness ==
    /\ result_data # Unbound
    /\ response.status_code = 201
    /\ response.text = <<"<", "h", "t", "m", "l", ">">>
    /\ result_data.t = "dict"

\* C7: whichever step fails, the invocation ends by returning None; nothing
\* escapes to the caller.
C7_Contained ==
    (pc = "idle" /\ runs > 0) =>
        /\ exit = "return"
        /\ failed # "" => ret = None

\* C8: the file is opened only after a 2xx status; when the request fails,
\* the invocation returns None and leaves the file as it was.
C8_RequestFailureLeavesFile ==
    /\ pc \in {"dump", "report"} => response.status_code \in 200..299
    /\ (pc = "idle" /\ failed \in {"request", "status"}) =>
           /\ exit = "return" /\ ret = None
           /\ file = file_before

\* C9: after an invocation that completed successfully, the file holds
\* exactly the serialization of the returned payload, and parsing the file
\* yields a value equal to that payload.
C9_RoundTrip ==
    (pc = "idle" /\ exit = "return" /\ failed = "") =>
        /\ file = FileWith(JsonDump(ret))
        /\ JsonLoads(file.text) = [ok |-> TRUE, v |-> ret]

\* a second successful invocation replaced the text the first one wrote
C9_Witness ==
    /\ pc = "idle" /\ exit = "return" /\ failed = "" /\ runs = 2
    /\ file_before.exists /\ file_before.text \notin {<<>>, <<"o", "l", "d">>}
    /\ file.text # file_before.text
    /\ ret.t = "dict"

\* C10: an invocation whose steps all succeed does not return None, and an
\* invocation that returns None has not written a response to the file.
C10_NoneMeansFailure ==
    (pc = "idle" /\ exit = "return") =>
        /\ failed = "" => ret # None
        /\ ret = None => ~wrote

====
